---- MODULE Spec2Model ----
(***************************************************************************)
(* State-machine model of the bee watcher: the change monitor              *)
(* (telegram_bot._check_once / _monitor_loop), the watch registry          *)
(* (telegram_bot.BotState over database.Database), the status classifier   *)
(* (models.TokenStatus), the single-asset lookup (parser_gate) and the     *)
(* request throttle (utils.RateLimiter).                                   *)
(*                                                                         *)
(* Two threads touch the registry: the main thread, which runs the command *)
(* handlers one update at a time (run_bot), and the monitor thread         *)
(* (_monitor_loop).  A `with self.lock:` block of BotState that writes is  *)
(* two steps: the persistence write (taking the lock) and the in-memory    *)
(* write (releasing it).                                                   *)
(***************************************************************************)
EXTENDS Integers, Sequences, FiniteSets, TLC

\* ------------------------------------------------------------------ bounds
MaxClock == 3          \* timestamps 1..MaxClock: at most MaxClock classified records
MaxItems == 2          \* records in one upstream search response
MaxPasses == 2         \* monitor passes started
MaxCmds == 1           \* registry calls made by the command handlers

Chats == {"c1", "c2"}
Coins == {"a"}           \* tickers that chats watch
Assets == {"a", "b"}     \* asset identifiers the marketplace lists
Keys == Chats \X Coins

\* str.lower() and str.strip() on the spellings of asset identifiers and
\* search keys that occur
Lower(t) == CASE t = "A" -> "a" [] t = "B" -> "b" [] t = " A" -> " a" [] OTHER -> t

Strip(t) == CASE t = " a" -> "a" [] t = " A" -> "A" [] OTHER -> t

\* ------------------------------------------------------- upstream records
NoApr == -1                               \* Python None for sort_apr
SaleStatuses == {1, 2}

\* A raw sort_apr value of the JSON payload: null, a number, a string (a
\* sequence of characters) or a value of another type.  Rates are counted in
\* tenths: 35 is 3.5.
RawNone == [kind |-> "none", num |-> 0, text |-> <<>>]
RawNum(n) == [kind |-> "num", num |-> n, text |-> <<>>]
RawStr(t) == [kind |-> "str", num |-> 0, text |-> t]
RawOther == [kind |-> "other", num |-> 0, text |-> <<>>]

AprValues == {RawNone}

\* One record of the marketplace listing: asset, fixed_list entries
\* ({sale_status: n}), sort_apr.
Records ==
  [asset : Assets, fixed_list : {<<[sale_status |-> s]>> : s \in SaleStatuses}, sort_apr : AprValues]

RECURSIVE SeqsUpTo(_, _)
SeqsUpTo(S, n) ==
  IF n = 0 THEN {<<>>}
  ELSE LET shorter == SeqsUpTo(S, n - 1)
       IN shorter \cup {Append(q, x) : q \in {r \in shorter : Len(r) = n - 1}, x \in S}

ItemLists == SeqsUpTo(Records, MaxItems)

\* ------------------------------------------------------------ parser_gate
NoInfo == [asset |-> "-", fixed_list |-> <<>>, sort_apr |-> RawNone]   \* Python None

Digits == {"0", "1", "2", "3", "4", "5", "6", "7", "8", "9"}

DigitVal(c) ==
  CASE c = "0" -> 0 [] c = "1" -> 1 [] c = "2" -> 2 [] c = "3" -> 3 [] c = "4" -> 4
    [] c = "5" -> 5 [] c = "6" -> 6 [] c = "7" -> 7 [] c = "8" -> 8 [] c = "9" -> 9

\* lines 65-66: drop "%", turn a no-break space into a space, drop the
\* spaces, turn "," into "."
RECURSIVE Cleaned(_)
Cleaned(text) ==
  IF text = <<>> THEN <<>>
  ELSE LET c == Head(text)
           rest == Cleaned(Tail(text))
       IN IF c \in {"%", "nbsp", " "} THEN rest
          ELSE IF c = "," THEN <<".">> \o rest
          ELSE <<c>> \o rest

DotsIn(text) == {i \in DOMAIN text : text[i] = "."}

\* float(cleaned) raises ValueError: here every text that is not digits with
\* at most one "." and at least one digit
FloatRaises(text) ==
  \/ \E i \in DOMAIN text : text[i] \notin Digits \cup {"."}
  \/ Cardinality(DotsIn(text)) > 1
  \/ DOMAIN text \ DotsIn(text) = {}

RECURSIVE NatOf(_)
NatOf(digits) ==
  IF digits = <<>> THEN 0
  ELSE 10 * NatOf(SubSeq(digits, 1, Len(digits) - 1)) + DigitVal(digits[Len(digits)])

\* float(cleaned) in tenths, for a text with at most one digit after the "."
FloatOf(text) ==
  LET dot == IF DotsIn(text) = {} THEN Len(text) + 1 ELSE CHOOSE i \in DotsIn(text) : TRUE
      whole == SubSeq(text, 1, dot - 1)
      frac == SubSeq(text, dot + 1, Len(text))
  IN 10 * NatOf(whole) + (IF frac = <<>> THEN 0 ELSE DigitVal(frac[1]))

\* parser_gate._parse_apr_percent
_parse_apr_percent(value) ==
  IF value.kind = "none" THEN NoApr
  ELSE IF value.kind = "num" THEN value.num
  ELSE IF value.kind = "str"
       THEN IF FloatRaises(Cleaned(value.text)) THEN NoApr ELSE FloatOf(Cleaned(value.text))
  ELSE NoApr

_sort_apr_percent(item) == _parse_apr_percent(item.sort_apr)

\* A JSON value as _extract_projects tests it: a list (with its items), a
\* dict (with its fields), a missing key, or a value of another type.
Absent == [kind |-> "absent"]
Scalar == [kind |-> "scalar"]
ListOf(items) == [kind |-> "list", items |-> items]
DictOf(fields) == [kind |-> "dict", fields |-> fields]

\* line 139
TopKeys == <<"data", "list", "result", "rows">>

\* variant: the nested data key is probed first
NestedKeys_dataFirst == <<"data", "list", "rows">>

\* line 143
NestedKeys == <<"list", "rows", "data">>

\* the loops of lines 139-141 and 143-145: the first key whose value is a list
RECURSIVE FirstListKey(_, _)
FirstListKey(d, keys) ==
  IF keys = <<>> THEN "-"
  ELSE IF d[Head(keys)].kind = "list" THEN Head(keys)
  ELSE FirstListKey(d, Tail(keys))

_extract_projects(payload) ==
  IF FirstListKey(payload, TopKeys) # "-"
  THEN payload[FirstListKey(payload, TopKeys)].items
  ELSE IF payload.data.kind = "dict" /\ FirstListKey(payload.data.fields, NestedKeys) # "-"
       THEN payload.data.fields[FirstListKey(payload.data.fields, NestedKeys)].items
       ELSE <<>>

\* lines 155-157: the sale_status of every entry that has one, as it comes
RECURSIVE CollectSaleStatus(_)
CollectSaleStatus(entries) ==
  IF entries = <<>> THEN <<>>
  ELSE IF "sale_status" \in DOMAIN Head(entries)
       THEN <<Head(entries).sale_status>> \o CollectSaleStatus(Tail(entries))
       ELSE CollectSaleStatus(Tail(entries))

extract_sale_statuses(item) == [fixed_list |-> CollectSaleStatus(item.fixed_list)]

\* variant: the asset identifier is compared as it is spelled
AssetMatches_exact(item, search_lower) == item.asset = search_lower

\* lines 176-177
AssetMatches(item, search_lower) == Lower(item.asset) = search_lower

RECURSIVE FirstMatch(_, _)
FirstMatch(items, search_lower) ==
  IF items = <<>> THEN NoInfo
  ELSE IF AssetMatches(Head(items), search_lower) THEN Head(items)
  ELSE FirstMatch(Tail(items), search_lower)

fetch_token_info(items, search_coin) ==
  IF items = <<>> THEN NoInfo
  ELSE LET m == FirstMatch(items, Lower(Strip(search_coin)))
       IN IF m # NoInfo THEN m ELSE items[1]

\* ----------------------------------------------------------------- models
\* TokenStatus: coin, fixed_list, sort_apr, timestamp
from_api_response(item, ts) ==
  [coin |-> Lower(item.asset),
   fixed_list |-> extract_sale_statuses(item).fixed_list,
   sort_apr |-> _sort_apr_percent(item),
   timestamp |-> ts]

\* A stored status string: the JSON text written by to_string, or the
\* placeholder text "no_data" stored by the subscribe command.
NoData == [raw |-> "no_data", fixed_list |-> <<>>, sort_apr |-> NoApr, timestamp |-> 0]

to_string(s) ==
  [raw |-> "json", fixed_list |-> s.fixed_list, sort_apr |-> s.sort_apr, timestamp |-> s.timestamp]

\* json.loads raises on text that is not JSON
from_string_raises(data_str) == data_str.raw # "json"

from_string(coin, data_str) ==
  [coin |-> coin,
   fixed_list |-> data_str.fixed_list,
   sort_apr |-> data_str.sort_apr,
   timestamp |-> data_str.timestamp]

\* TokenStatus(coin, fixed_list, sort_apr, timestamp): the generated __init__
\* and __post_init__, which lower-cases coin
TokenStatus(coin, fixed_list, sort_apr, timestamp) ==
  [coin |-> Lower(coin), fixed_list |-> fixed_list, sort_apr |-> sort_apr, timestamp |-> timestamp]

is_available(self) == \E i \in DOMAIN self.fixed_list : self.fixed_list[i] = 1

is_sold_out(self) ==
  Len(self.fixed_list) > 0 /\ \A i \in DOMAIN self.fixed_list : self.fixed_list[i] = 2

is_partially_available(self) ==
  LET has_available == \E i \in DOMAIN self.fixed_list : self.fixed_list[i] = 1
      has_sold == \E i \in DOMAIN self.fixed_list : self.fixed_list[i] = 2
  IN has_available /\ has_sold

\* variant: the available test is made before the partial test
get_status_emoji_available_first(self) ==
  IF is_available(self) THEN "green"
  ELSE IF is_partially_available(self) THEN "yellow"
  ELSE IF is_sold_out(self) THEN "red"
  ELSE "white"

get_status_emoji(self) ==
  IF is_partially_available(self) THEN "yellow"
  ELSE IF is_available(self) THEN "green"
  ELSE IF is_sold_out(self) THEN "red"
  ELSE "white"

\* variant: the comparison a dataclass generates, over all fields
TokenStatus_eq_fields(self, other) == self = other

\* TokenStatus.__eq__
TokenStatus_eq(self, other) ==
  self.coin = other.coin /\ self.fixed_list = other.fixed_list

\* hash of a tuple: a fold over its items
RECURSIVE HashTuple(_)
HashTuple(items) ==
  IF items = <<>> THEN 7
  ELSE (31 * HashTuple(SubSeq(items, 1, Len(items) - 1)) + items[Len(items)]) % 65536

\* hash of a str
HashStr(t) == CASE t = "a" -> 97 [] t = "A" -> 65 [] t = "b" -> 98 [] t = "B" -> 66 [] OTHER -> 0

\* TokenStatus.__hash__: hash((self.coin, tuple(self.fixed_list)))
TokenStatus_hash(self) == HashTuple(<<HashStr(self.coin), HashTuple(self.fixed_list)>>)

\* ------------------------------------------------------------------ state
VARIABLES
  subscribers,      \* BotState.subscribers
  watch,            \* BotState.watch: (chat, coin) -> stored status
  dbSubscribers,    \* rows of table subscribers
  dbPaused,         \* chats whose row has paused = 1
  dbWatch,          \* rows of table watches: (chat, coin) -> current_status
  lock,             \* BotState.lock: "free", "main" or "monitor"
  cmd,              \* registry call the main thread is inside of
  global_alerted, global_failures, coin_failures, coin_alerted,
  pc,               \* monitor thread: sleep, loop, fetch, update, update_mem, crashed
  todo,             \* watches of the pass snapshot not reached yet
  cur,              \* watch being processed
  any_success,      \* local of _check_once
  fetched,          \* token_status and status_changed of the current watch
  now,              \* clock read by datetime.now()
  passes, ncmds,    \* passes started, registry calls made
  lastSent,         \* what the latest monitor step sent
  lastBroadcast,    \* history: kind of the latest broadcast
  runAlerts,        \* history: alerts since the last pass that started in NORMAL
  startedDegraded,  \* history: global_alerted when the current pass started
  streakAlerts,     \* history: per watch, alerts since its failing streak began
  polls, prevPolls, \* history: completed successful polls of this / the previous pass
  sendFails,        \* chats for which the Telegram request raises at present
  lastFailed        \* history: chats for which the latest step logged a send error

VARIABLES
  tnow,             \* time.time(), in seconds
  last_request,     \* RateLimiter.last_request
  rl_lock,          \* RateLimiter.lock: 0 when free, else the holding thread
  tpc,              \* per thread: idle, locked, jitter
  twake,            \* per thread: end of its current time.sleep
  ncalls,           \* per thread: requests sent
  stamps,           \* history: values stamped into last_request
  requests          \* history: times at which requests were sent

thrVars == <<tnow, last_request, rl_lock, tpc, twake, ncalls, stamps, requests>>

VARIABLES
  r_max, r_base, r_cap,   \* retry_with_backoff: max_attempts, base_delay, max_delay
  r_pc,                   \* idle, loop, returned, raised
  r_attempt,              \* loop variable attempt
  r_last,                 \* last_exception
  r_value,                \* value returned to the caller
  r_escaped,              \* exception that left retry_with_backoff
  r_outcomes,             \* history: outcome of every call of func
  r_sleeps                \* history: argument of every time.sleep

retryVars == <<r_max, r_base, r_cap, r_pc, r_attempt, r_last, r_value, r_escaped, r_outcomes, r_sleeps>>

VARIABLES
  cache,        \* ProjectCache._cache: threshold -> [data, timestamp]
  cnow,         \* time.time() as the cache reads it
  nadv,         \* times the clock was advanced
  s_pc,         \* fetch_projects_with_apr_gt: idle, pages, raised
  s_thr,        \* threshold of the running call
  s_tasks,      \* page numbers submitted to the executor, in order
  s_todo,       \* futures not completed yet
  s_results,    \* local results
  s_got,        \* history: page -> what its task ended with
  s_ret,        \* value the latest call returned
  s_call,       \* history: arguments of the latest call and what cache.get gave
  s_called      \* a call has been made

scanVars ==
  <<cache, cnow, nadv, s_pc, s_thr, s_tasks, s_todo, s_results, s_got, s_ret, s_call, s_called>>

VARIABLES
  t_in,         \* constructor arguments of two TokenStatus objects
  t_obj,        \* the two objects, once constructed
  t_res,        \* what their methods returned
  f_items,      \* records of one search response, in response order
  f_key,        \* search_coin
  f_ret         \* what fetch_token_info returned

VARIABLES
  p_item,       \* an upstream record, as parsed from JSON
  p_now,        \* datetime.now() when the record is converted
  p_obj,        \* TokenStatus.from_api_response(p_item)
  p_str,        \* p_obj.to_string()
  p_back,       \* TokenStatus.from_string(p_obj.coin, p_str)
  e_payload,    \* a response payload
  e_ret         \* what _extract_projects returned for it

parseVars == <<p_item, p_now, p_obj, p_str, p_back, e_payload, e_ret>>

pureVars == <<t_in, t_obj, t_res, f_items, f_key, f_ret, parseVars>>

\* state of the components that are not part of the monitor or the throttle
sideVars == <<retryVars, scanVars, pureVars>>

monVars ==
  <<subscribers, watch, dbSubscribers, dbPaused, dbWatch, lock, cmd,
    global_alerted, global_failures, coin_failures, coin_alerted,
    pc, todo, cur, any_success, fetched, now, passes, ncmds,
    lastSent, lastBroadcast, runAlerts, startedDegraded, streakAlerts, polls, prevPolls,
    sendFails, lastFailed>>

registryVars == <<subscribers, watch, dbSubscribers, dbPaused, dbWatch, lock, cmd>>
failureVars == <<global_alerted, global_failures, coin_failures, coin_alerted>>
passVars == <<pc, todo, cur, any_success, fetched, passes>>
historyVars ==
  <<lastSent, lastBroadcast, runAlerts, startedDegraded, streakAlerts, polls, prevPolls,
    sendFails, lastFailed>>

NoKey == <<"-", "-">>
EmptyMap == [k \in {} |-> 0]
NoCmd == [op |-> "none", chat |-> "-", coin |-> "-", status |-> NoData]
NoFetch == [ts |-> from_api_response(NoInfo, 0), info |-> NoInfo, had |-> FALSE, old |-> NoData,
            changed |-> FALSE]
Nothing == [kind |-> "none", to |-> {}, coin |-> "-"]

Put(f, k, v) == [x \in DOMAIN f \cup {k} |-> IF x = k THEN v ELSE f[x]]
Drop(f, S) == [x \in DOMAIN f \ S |-> f[x]]

Triples(w) == {<<k[1], k[2], w[k]>> : k \in DOMAIN w}

\* statuses a previous run of the bot left in the table
StoredStatuses ==
  {NoData} \cup {to_string(from_api_response(r, 0)) :
                    r \in {x \in Records : x.asset \in Coins /\ x.fixed_list[1].sale_status = 1}}

\* BotState.__init__: subscribers and watches are loaded from the database
LoadedFrom(subs, paused, watches) ==
  /\ dbSubscribers = subs /\ dbPaused = paused /\ dbWatch = watches
  /\ subscribers = subs /\ watch = watches

InitMonitor ==
  /\ \E subs \in SUBSET Chats, paused \in SUBSET Chats :
       /\ paused \subseteq subs
       /\ \E D \in SUBSET (subs \X Coins) :
            \E watches \in [D -> StoredStatuses] : LoadedFrom(subs, paused, watches)
  /\ lock = "free" /\ cmd = NoCmd
  /\ passes = 0 /\ ncmds = 0
  /\ global_alerted = FALSE /\ global_failures = 0
  /\ coin_failures = EmptyMap /\ coin_alerted = {}
  /\ pc = "sleep" /\ todo = {} /\ cur = NoKey /\ any_success = FALSE /\ fetched = NoFetch
  /\ now = 0
  /\ lastSent = Nothing /\ lastBroadcast = "none" /\ runAlerts = 0 /\ startedDegraded = FALSE
  /\ lastFailed = {}
  /\ streakAlerts = [k \in Keys |-> -1]
  /\ polls = EmptyMap /\ prevPolls = EmptyMap

\* --------------------------------------------------- registry (main thread)
\* database.Database.add_subscriber
db_add_subscriber(chat) == dbSubscribers' = dbSubscribers \cup {chat}

\* database.Database.set_paused: UPDATE of the chat's row, if there is one
db_set_paused(chat, paused) ==
  dbPaused' = IF chat \notin dbSubscribers THEN dbPaused
              ELSE IF paused THEN dbPaused \cup {chat} ELSE dbPaused \ {chat}

\* variant: no chat counts as paused
db_is_paused_never(chat) == FALSE

\* database.Database.is_paused
db_is_paused(chat) == chat \in dbPaused

\* database.Database.add_watch: upsert
db_add_watch(chat, coin, status) == dbWatch' = Put(dbWatch, <<chat, coin>>, status)

\* database.Database.update_watch_status: UPDATE ... WHERE chat_id = ? AND coin = ?
db_update_watch_status(chat, coin, status) ==
  dbWatch' = IF <<chat, coin>> \in DOMAIN dbWatch
             THEN Put(dbWatch, <<chat, coin>>, status) ELSE dbWatch

\* database.Database.remove_watch
db_remove_watch(chat, coin) == dbWatch' = Drop(dbWatch, {<<chat, coin>>})

Begin(op, chat, coin, status) ==
  /\ lock = "free" /\ cmd = NoCmd
  /\ ncmds < MaxCmds
  /\ ncmds' = ncmds + 1
  /\ lock' = "main"
  /\ cmd' = [op |-> op, chat |-> chat, coin |-> coin, status |-> status]

Finish(op) ==
  /\ cmd.op = op /\ lock = "main"
  /\ lock' = "free" /\ cmd' = NoCmd
  /\ UNCHANGED ncmds

add_subscriber_db(chat) ==
  /\ Begin("add_subscriber", chat, "-", NoData)
  /\ db_add_subscriber(chat)
  /\ UNCHANGED <<subscribers, watch, dbPaused, dbWatch, now>>
  /\ UNCHANGED <<failureVars, passVars, historyVars, thrVars, sideVars>>

add_subscriber_mem ==
  /\ Finish("add_subscriber")
  /\ subscribers' = subscribers \cup {cmd.chat}
  /\ UNCHANGED <<watch, dbSubscribers, dbPaused, dbWatch, now>>
  /\ UNCHANGED <<failureVars, passVars, historyVars, thrVars, sideVars>>

\* The subscribe and /filter handlers call set_watch after add_subscriber,
\* with "no_data" (lookup failed or found nothing) or the serialized
\* classification of the record they fetched.
set_watch_db(chat, coin, status, tick) ==
  /\ chat \in subscribers
  /\ Begin("set_watch", chat, coin, status)
  /\ db_add_watch(chat, coin, status)
  /\ now' = now + tick
  /\ UNCHANGED <<subscribers, watch, dbSubscribers, dbPaused>>
  /\ UNCHANGED <<failureVars, passVars, historyVars, thrVars, sideVars>>

set_watch_no_data(chat, coin) == set_watch_db(chat, coin, NoData, 0)

set_watch_record(chat, coin, items) ==
  /\ now < MaxClock
  /\ fetch_token_info(items, coin) # NoInfo
  /\ set_watch_db(chat, coin,
                  to_string(from_api_response(fetch_token_info(items, coin), now + 1)), 1)

set_watch_mem ==
  /\ Finish("set_watch")
  /\ watch' = Put(watch, <<cmd.chat, cmd.coin>>, cmd.status)
  /\ UNCHANGED <<subscribers, dbSubscribers, dbPaused, dbWatch, now>>
  /\ UNCHANGED <<failureVars, passVars, historyVars, thrVars, sideVars>>

remove_watch_db(chat, coin) ==
  /\ Begin("remove_watch", chat, coin, NoData)
  /\ db_remove_watch(chat, coin)
  /\ UNCHANGED <<subscribers, watch, dbSubscribers, dbPaused, now>>
  /\ UNCHANGED <<failureVars, passVars, historyVars, thrVars, sideVars>>

remove_watch_mem ==
  /\ Finish("remove_watch")
  /\ watch' = Drop(watch, {<<cmd.chat, cmd.coin>>})
  /\ UNCHANGED <<subscribers, dbSubscribers, dbPaused, dbWatch, now>>
  /\ UNCHANGED <<failureVars, passVars, historyVars, thrVars, sideVars>>

clear_watches_db(chat) ==
  /\ Begin("clear_watches", chat, "-", NoData)
  /\ dbWatch' = Drop(dbWatch, {k \in DOMAIN watch : k[1] = chat})
  /\ UNCHANGED <<subscribers, watch, dbSubscribers, dbPaused, now>>
  /\ UNCHANGED <<failureVars, passVars, historyVars, thrVars, sideVars>>

clear_watches_mem ==
  /\ Finish("clear_watches")
  /\ watch' = Drop(watch, {k \in DOMAIN watch : k[1] = cmd.chat})
  /\ UNCHANGED <<subscribers, dbSubscribers, dbPaused, dbWatch, now>>
  /\ UNCHANGED <<failureVars, passVars, historyVars, thrVars, sideVars>>

\* /pause and /resume: state.db.set_paused, outside BotState.lock
set_paused(chat, paused) ==
  /\ cmd = NoCmd
  /\ ncmds < MaxCmds
  /\ ncmds' = ncmds + 1
  /\ db_set_paused(chat, paused)
  /\ UNCHANGED <<subscribers, watch, dbSubscribers, dbWatch, lock, cmd, now>>
  /\ UNCHANGED <<failureVars, passVars, historyVars, thrVars, sideVars>>

\* database.Database.remove_subscriber: one transaction deletes the watches
\* of the chat and its subscribers row (which holds the paused flag)
db_remove_subscriber(chat) ==
  /\ dbWatch' = Drop(dbWatch, {k \in DOMAIN dbWatch : k[1] = chat})
  /\ dbSubscribers' = dbSubscribers \ {chat}
  /\ dbPaused' = dbPaused \ {chat}

\* cleanup_db.py, lines 15-19: the maintenance script deletes a watch row of
\* the chat in the database file of the bot
cleanup_remove_watch(chat, coin) ==
  /\ <<chat, coin>> \in DOMAIN dbWatch
  /\ db_remove_watch(chat, coin)
  /\ UNCHANGED <<subscribers, watch, dbSubscribers, dbPaused, lock, cmd, now, ncmds>>
  /\ UNCHANGED <<failureVars, passVars, historyVars, thrVars, sideVars>>

\* cleanup_db.py, line 22: db.remove_subscriber(chat_id), the only caller of
\* remove_subscriber; BotState has no such method
cleanup_remove_subscriber(chat) ==
  /\ chat \in dbSubscribers
  /\ db_remove_subscriber(chat)
  /\ UNCHANGED <<subscribers, watch, lock, cmd, now, ncmds>>
  /\ UNCHANGED <<failureVars, passVars, historyVars, thrVars, sideVars>>

\* ------------------------------------------------ monitor (_check_once)
Cap(n) == IF n > 2 THEN 2 ELSE n

\* variant: the loop over the targets ends at the first send that fails
_send_alert_until_failure(kind) ==
  IF subscribers = {} THEN Nothing
  ELSE [kind |-> kind, coin |-> "-",
        to |-> IF subscribers \cap sendFails = {} THEN subscribers
               ELSE {CHOOSE t \in subscribers \cap sendFails : TRUE}]

\* _send_alert: one message to every current subscriber; only a log line
\* when there is none
_send_alert(kind) ==
  IF subscribers = {} THEN Nothing ELSE [kind |-> kind, to |-> subscribers, coin |-> "-"]

\* send_message for every chat of msg.to: a request that raises is logged
\* (lines 41-42) and the caller goes on
Delivered(msg) ==
  /\ lastSent' = msg
  /\ lastFailed' = msg.to \cap sendFails
  /\ UNCHANGED sendFails

\* variant: the alert is sent on every failed poll
ShouldAlert_always == TRUE

\* line 231 / 239: the alert is sent unless one is already active
ShouldAlert == ~global_alerted

\* variant: recovery on any success, alerted or not
ShouldRecover_anySuccess == any_success

\* line 274
ShouldRecover == any_success /\ global_alerted

\* variant: status_changed compares the whole objects, metadata included
StatusChanged_whole(old_status, token_status) == old_status # token_status

\* variant: status_changed compares the (coin, fixed_list) pairs
StatusChanged_pair(old_status, token_status) ==
  <<old_status.coin, old_status.fixed_list>> # <<token_status.coin, token_status.fixed_list>>

\* line 252-257: status_changed, from the stored status read without the lock
StatusChanged(old_status, token_status) == old_status.fixed_list # token_status.fixed_list

\* line 260
ShouldNotify(wrote, status_changed) == wrote /\ status_changed

\* BotState.get_watches, then the first statement of the pass
StartPass ==
  /\ pc = "sleep" /\ lock = "free"
  /\ passes < MaxPasses
  /\ passes' = passes + 1
  /\ todo' = DOMAIN watch
  /\ any_success' = FALSE
  /\ pc' = "loop"
  /\ Delivered(Nothing)
  /\ runAlerts' = IF global_alerted THEN runAlerts ELSE 0
  /\ startedDegraded' = global_alerted
  /\ streakAlerts' = [k \in Keys |-> IF k \in DOMAIN watch THEN streakAlerts[k] ELSE -1]
  /\ prevPolls' = polls /\ polls' = EmptyMap
  /\ UNCHANGED <<cur, fetched, now, lastBroadcast, ncmds>>
  /\ UNCHANGED <<registryVars, failureVars, thrVars, sideVars>>

\* next watch of the snapshot; a paused chat is skipped (line 222)
NextWatch(k) ==
  /\ pc = "loop" /\ k \in todo
  /\ todo' = todo \ {k}
  /\ Delivered(Nothing)
  /\ IF db_is_paused(k[1])
     THEN /\ streakAlerts' = [streakAlerts EXCEPT ![k] = -1]
          /\ UNCHANGED <<pc, cur>>
     ELSE /\ pc' = "fetch" /\ cur' = k
          /\ UNCHANGED streakAlerts
  /\ UNCHANGED <<any_success, fetched, now, passes, ncmds, lastBroadcast, runAlerts, startedDegraded, polls, prevPolls>>
  /\ UNCHANGED <<registryVars, failureVars, thrVars, sideVars>>

\* variant: the pass returns after a failed poll
AfterFailedPoll_return == "sleep"

\* lines 235 and 242: continue
AfterFailedPoll == "loop"

\* variant: the failure branch counts the failure of the asset
CoinFailuresAfterFailedPoll_counted(coin) ==
  Put(coin_failures, coin, Cap((IF coin \in DOMAIN coin_failures THEN coin_failures[coin] ELSE 0) + 1))

\* lines 229-242: the failure branches call none of increment_coin_failure,
\* mark_coin_alerted, is_coin_alerted; coin_failures stays as it is
CoinFailuresAfterFailedPoll(coin) == coin_failures

\* lines 229-235 and 237-242: fetch raised, or returned nothing
PollFailed ==
  /\ pc' = AfterFailedPoll
  /\ IF ShouldAlert
     THEN /\ Delivered(_send_alert("alert"))
          /\ lastBroadcast' = IF subscribers = {} THEN lastBroadcast ELSE "alert"
          /\ runAlerts' = IF subscribers = {} THEN runAlerts ELSE Cap(runAlerts + 1)
          /\ streakAlerts' =
               [k \in Keys |->
                  IF subscribers = {} THEN (IF k = cur /\ streakAlerts[k] < 0 THEN 0 ELSE streakAlerts[k])
                  ELSE IF k = cur \/ streakAlerts[k] >= 0 THEN Cap(
                         (IF streakAlerts[k] < 0 THEN 0 ELSE streakAlerts[k]) + 1)
                  ELSE streakAlerts[k]]
          /\ global_alerted' = TRUE
     ELSE /\ Delivered(Nothing)
          /\ streakAlerts' = [streakAlerts EXCEPT ![cur] = IF @ < 0 THEN 0 ELSE @]
          /\ UNCHANGED <<global_alerted, lastBroadcast, runAlerts>>
  /\ cur' = NoKey
  /\ coin_failures' = CoinFailuresAfterFailedPoll(cur[2])
  /\ UNCHANGED <<todo, any_success, fetched, now, passes, ncmds, startedDegraded, polls, prevPolls>>
  /\ UNCHANGED <<registryVars, global_failures, coin_alerted, thrVars, sideVars>>

FetchRaises ==
  /\ pc = "fetch"
  /\ PollFailed

FetchReturns(items) ==
  /\ pc = "fetch"
  /\ LET info == fetch_token_info(items, cur[2])
     IN IF info = NoInfo
        THEN PollFailed
        ELSE /\ now < MaxClock
             /\ now' = now + 1
             /\ any_success' = TRUE
             /\ Delivered(Nothing)
             /\ streakAlerts' = [streakAlerts EXCEPT ![cur] = -1]
             /\ LET token_status == from_api_response(info, now + 1)
                IN IF cur \in DOMAIN watch
                   THEN IF from_string_raises(watch[cur])
                        THEN pc' = "crashed" /\ UNCHANGED fetched
                        ELSE /\ pc' = "update"
                             /\ fetched' = [ts |-> token_status, info |-> info,
                                            had |-> TRUE, old |-> watch[cur],
                                            changed |-> StatusChanged(from_string(cur[2], watch[cur]),
                                                                      token_status)]
                   ELSE /\ pc' = "update"
                        /\ fetched' = [ts |-> token_status, info |-> info,
                                       had |-> FALSE, old |-> NoData, changed |-> TRUE]
             /\ UNCHANGED <<todo, cur, passes, ncmds, lastBroadcast, runAlerts, startedDegraded, polls, prevPolls>>
             /\ UNCHANGED <<registryVars, failureVars, thrVars, sideVars>>

\* BotState.update_status: compare and write to persistence
HasStatus(k, status) == k \in DOMAIN watch /\ watch[k] = status

\* history record of one completed successful poll
PollResult(wrote) ==
  [rec |-> fetched.info, wrote |-> wrote, notified |-> ShouldNotify(wrote, fetched.changed)]

update_status_db ==
  /\ pc = "update" /\ lock = "free"
  /\ Delivered(Nothing)
  /\ IF ~HasStatus(cur, to_string(fetched.ts))
     THEN /\ db_update_watch_status(cur[1], cur[2], to_string(fetched.ts))
          /\ lock' = "monitor"
          /\ pc' = "update_mem"
          /\ UNCHANGED <<polls, cur, fetched>>
     ELSE /\ pc' = "loop"
          /\ polls' = Put(polls, cur, PollResult(FALSE))
          /\ cur' = NoKey /\ fetched' = NoFetch
          /\ UNCHANGED <<dbWatch, lock>>
  /\ UNCHANGED <<subscribers, watch, dbSubscribers, dbPaused, cmd>>
  /\ UNCHANGED <<todo, any_success, now, passes, ncmds>>
  /\ UNCHANGED <<lastBroadcast, runAlerts, startedDegraded, streakAlerts, prevPolls>>
  /\ UNCHANGED <<failureVars, thrVars, sideVars>>

\* BotState.update_status: in-memory write and return True; lines 260-271
update_status_mem ==
  /\ pc = "update_mem" /\ lock = "monitor"
  /\ watch' = Put(watch, cur, to_string(fetched.ts))
  /\ lock' = "free"
  /\ pc' = "loop"
  /\ Delivered(IF ShouldNotify(TRUE, fetched.changed)
               THEN [kind |-> "change", to |-> {cur[1]}, coin |-> cur[2]]
               ELSE Nothing)
  /\ polls' = Put(polls, cur, PollResult(TRUE))
  /\ cur' = NoKey /\ fetched' = NoFetch
  /\ UNCHANGED <<subscribers, dbSubscribers, dbPaused, dbWatch, cmd>>
  /\ UNCHANGED <<todo, any_success, now, passes, ncmds>>
  /\ UNCHANGED <<lastBroadcast, runAlerts, startedDegraded, streakAlerts, prevPolls>>
  /\ UNCHANGED <<failureVars, thrVars, sideVars>>

\* lines 273-280, then _monitor_loop sleeps
EndPass ==
  /\ pc = "loop" /\ todo = {}
  /\ pc' = "sleep"
  /\ IF ShouldRecover
     THEN /\ lock = "free"
          /\ Delivered(_send_alert("recovery"))
          /\ lastBroadcast' = IF subscribers = {} THEN lastBroadcast ELSE "recovery"
          /\ global_alerted' = FALSE
          /\ global_failures' = 0
          /\ coin_failures' = EmptyMap
          /\ coin_alerted' = {}
     ELSE /\ Delivered(Nothing)
          /\ UNCHANGED <<lastBroadcast, failureVars>>
  /\ UNCHANGED <<todo, cur, any_success, fetched, now, passes, ncmds, runAlerts, startedDegraded, streakAlerts, polls, prevPolls>>
  /\ UNCHANGED <<registryVars, thrVars, sideVars>>

\* _api_request (lines 21-31) starts or stops raising for some chats, between
\* two steps of the monitor
telegram_changes(failing) ==
  /\ failing # sendFails
  /\ sendFails' = failing
  /\ UNCHANGED <<now, ncmds>>
  /\ UNCHANGED <<lastSent, lastBroadcast, runAlerts, startedDegraded, streakAlerts, polls, prevPolls, lastFailed>>
  /\ UNCHANGED <<registryVars, failureVars, passVars, thrVars, sideVars>>

\* --------------------------------------------- throttle (utils.RateLimiter)
NumThreads == 2        \* threads issuing requests
MaxCalls == 2          \* requests per thread (first attempts and retries)
StartTime == 10        \* time.time() when the process starts
MaxTime == 16          \* end of the observed time window

MinInterval == 2       \* config.MIN_REQUEST_INTERVAL
MinDelay == 2          \* config.MIN_DELAY
MaxDelay == 4          \* config.MAX_DELAY

Threads == 1..NumThreads

InitThrottle ==
  /\ tnow = StartTime
  /\ last_request = 0
  /\ rl_lock = 0
  /\ tpc = [t \in Threads |-> "idle"]
  /\ twake = [t \in Threads |-> 0]
  /\ ncalls = [t \in Threads |-> 0]
  /\ stamps = <<>>
  /\ requests = <<>>

\* variant: no mutual exclusion
LockFree_never_held == TRUE

\* with self.lock
LockFree == rl_lock = 0

\* lines 36-40: the time up to which the caller sleeps
SleepUntil(t_now, last) ==
  IF t_now - last < MinInterval THEN t_now + (MinInterval - (t_now - last)) ELSE t_now

\* wait_if_needed, lines 35-40: take the lock, read the clock, start sleeping
wait_enter(t) ==
  /\ tpc[t] = "idle" /\ ncalls[t] < MaxCalls
  /\ LockFree
  /\ rl_lock' = t
  /\ tpc' = [tpc EXCEPT ![t] = "locked"]
  /\ twake' = [twake EXCEPT ![t] = SleepUntil(tnow, last_request)]
  /\ UNCHANGED <<tnow, last_request, ncalls, stamps, requests>>
  /\ UNCHANGED <<monVars, sideVars>>

\* wait_if_needed, line 41, and the release of the lock; then do_request
\* starts its random delay (parser_gate line 86 / 115)
wait_stamp(t, delay) ==
  /\ tpc[t] = "locked" /\ tnow >= twake[t]
  /\ last_request' = tnow
  /\ stamps' = Append(stamps, tnow)
  /\ rl_lock' = 0
  /\ tpc' = [tpc EXCEPT ![t] = "jitter"]
  /\ twake' = [twake EXCEPT ![t] = tnow + delay]
  /\ UNCHANGED <<tnow, ncalls, requests>>
  /\ UNCHANGED <<monVars, sideVars>>

\* urllib.request.urlopen of do_request
send_request(t) ==
  /\ tpc[t] = "jitter" /\ tnow >= twake[t]
  /\ requests' = Append(requests, tnow)
  /\ ncalls' = [ncalls EXCEPT ![t] = @ + 1]
  /\ tpc' = [tpc EXCEPT ![t] = "idle"]
  /\ UNCHANGED <<tnow, last_request, rl_lock, twake, stamps>>
  /\ UNCHANGED <<monVars, sideVars>>

Tick ==
  /\ tnow < MaxTime
  /\ tnow' = tnow + 1
  /\ UNCHANGED <<last_request, rl_lock, tpc, twake, ncalls, stamps, requests>>
  /\ UNCHANGED <<monVars, sideVars>>

\* ------------------------------------------- retry (utils.retry_with_backoff)
MaxAttempts == 3       \* largest max_attempts passed in

Cooldown429 == 60      \* utils.py line 90

BaseDelays == {2, 40}  \* base_delay arguments (2.0 is the default)
DelayCaps == {30, 60}  \* max_delay arguments (60.0 is the default)

\* what one call of func() does: it returns, urlopen raises HTTPError with a
\* status code, the transport fails (URLError, TimeoutError,
\* ConnectionError), or json.loads raises on the body that was read
HttpCodes == {400, 404, 429, 500, 503, 599}
Outcomes ==
  {[kind |-> "ok", code |-> 200], [kind |-> "transport", code |-> 0],
   [kind |-> "bad_json", code |-> 200]}
    \cup {[kind |-> "http", code |-> c] : c \in HttpCodes}

NoError == [kind |-> "none", code |-> 0, attempt |-> 0]
\* `raise None`: TypeError, exceptions must derive from BaseException
RaiseNone == [kind |-> "type_error", code |-> 0, attempt |-> 0]

ErrorOf(outcome, attempt) == [kind |-> outcome.kind, code |-> outcome.code, attempt |-> attempt]

RECURSIVE Pow2(_)
Pow2(n) == IF n <= 0 THEN 1 ELSE 2 * Pow2(n - 1)

Min(a, b) == IF a <= b THEN a ELSE b

\* variant: the delay is not capped by max_delay
backoff_delay_uncapped(base_delay, max_delay, attempt) == base_delay * Pow2(attempt - 1)

\* lines 94 and 106
backoff_delay(base_delay, max_delay, attempt) ==
  Min(base_delay * Pow2(attempt - 1), max_delay)

\* variant: a 429 is delayed like a server error
http_delay_backoff(code, base_delay, max_delay, attempt) ==
  backoff_delay(base_delay, max_delay, attempt)

\* lines 89-95: the delay after a retryable HTTP error
http_delay(code, base_delay, max_delay, attempt) ==
  IF code = 429 THEN Cooldown429 ELSE backoff_delay(base_delay, max_delay, attempt)

\* variant: every HTTP error is retried
NotRetried_never(code) == FALSE

\* lines 89-99: the else branch, an HTTP error that is neither 429 nor 5xx
NotRetried(code) == ~(code = 429) /\ ~(500 <= code /\ code < 600)

\* exceptions the two except clauses catch
Caught(outcome) == outcome.kind \in {"http", "transport"}

IdleRetry ==
  /\ r_max = 0 /\ r_base = 0 /\ r_cap = 0
  /\ r_pc = "idle" /\ r_attempt = 0
  /\ r_last = NoError /\ r_value = 0 /\ r_escaped = NoError
  /\ r_outcomes = <<>> /\ r_sleeps = <<>>

\* a call retry_with_backoff(func, max_attempts, base_delay, max_delay)
InitRetry ==
  /\ r_max \in 0..MaxAttempts /\ r_base \in BaseDelays /\ r_cap \in DelayCaps
  /\ r_pc = "loop" /\ r_attempt = 1
  /\ r_last = NoError /\ r_value = 0 /\ r_escaped = NoError
  /\ r_outcomes = <<>> /\ r_sleeps = <<>>

\* lines 101-102 / 111-112, then the next iteration
SleepAndGoOn(delay) ==
  /\ r_sleeps' = IF r_attempt < r_max THEN Append(r_sleeps, delay) ELSE r_sleeps
  /\ r_attempt' = r_attempt + 1
  /\ UNCHANGED <<r_pc, r_value, r_escaped>>

\* one iteration of the for loop, lines 79-112; the value func returns is
\* the number of the call that produced it
retry_attempt(outcome) ==
  /\ r_pc = "loop" /\ r_attempt <= r_max
  /\ r_outcomes' = Append(r_outcomes, outcome)
  /\ IF outcome.kind = "ok"
     THEN /\ r_pc' = "returned" /\ r_value' = r_attempt
          /\ UNCHANGED <<r_attempt, r_last, r_escaped, r_sleeps>>
     ELSE IF ~Caught(outcome)
     THEN /\ r_pc' = "raised" /\ r_escaped' = ErrorOf(outcome, r_attempt)
          /\ UNCHANGED <<r_attempt, r_last, r_value, r_sleeps>>
     ELSE /\ r_last' = ErrorOf(outcome, r_attempt)
          /\ IF outcome.kind = "http" /\ NotRetried(outcome.code)
             THEN /\ r_pc' = "raised" /\ r_escaped' = ErrorOf(outcome, r_attempt)
                  /\ UNCHANGED <<r_attempt, r_value, r_sleeps>>
             ELSE IF outcome.kind = "http"
             THEN SleepAndGoOn(http_delay(outcome.code, r_base, r_cap, r_attempt))
             ELSE SleepAndGoOn(backoff_delay(r_base, r_cap, r_attempt))
  /\ UNCHANGED <<r_max, r_base, r_cap>>
  /\ UNCHANGED <<monVars, thrVars, scanVars, pureVars>>

\* lines 114-117: the loop is over, raise last_exception
retry_exhausted ==
  /\ r_pc = "loop" /\ r_attempt > r_max
  /\ r_pc' = "raised"
  /\ r_escaped' = IF r_last = NoError THEN RaiseNone ELSE r_last
  /\ UNCHANGED <<r_max, r_base, r_cap, r_attempt, r_last, r_value, r_outcomes, r_sleeps>>
  /\ UNCHANGED <<monVars, thrVars, scanVars, pureVars>>

\* ------------------------- threshold scan and cache (parser_gate, 20-56, 182-237)
TotalPages == 3        \* config.TOTAL_PAGES of the modelled deployment
MaxAdvances == 2       \* times the clock moves between calls

Ttl == 300             \* parser_gate line 206

Thresholds == {20, 30}                    \* 2.0 and 3.0
ClockSteps == {1, Ttl}

\* records of the listing as the scan reads them
RawRates ==
  {RawNone, RawNum(20), RawNum(30), RawOther,
   RawStr(<<"3", ",", "5", "%">>), RawStr(<<" ", "2">>), RawStr(<<"n", "/", "a">>)}
ScanRecords == [asset : {"a"}, sort_apr : RawRates]

\* payloads of one page: no record, one record, or two
PageLists ==
  {<<>>} \cup {<<r>> : r \in ScanRecords}
    \cup {<<[asset |-> "a", sort_apr |-> RawNum(30)], r>> :
            r \in {x \in ScanRecords : x.sort_apr.kind = "str"}}

\* payloads of the listing while the cache is observed: nothing, or one
\* record above every threshold
CachePayloads == {<<>>, <<[asset |-> "a", sort_apr |-> RawStr(<<"3", ",", "5", "%">>)]>>}

\* exceptions a page task ends with: from retry_with_backoff (HTTPError,
\* URLError, TypeError), json.loads, or _extract_projects on a payload that is
\* not an object
PageErrors == {"HTTPError", "URLError", "TypeError", "JSONDecodeError", "AttributeError"}

\* variant: the exception of a task is not handled
CaughtByScan_none(err) == FALSE

\* line 231: except Exception
CaughtByScan(err) == err \in PageErrors

\* range(1, pages_to_fetch + 1)
PageNumbers == [i \in 1..TotalPages |-> i]

\* variant: the comparison admits the threshold itself
Matches_ge(item, threshold) ==
  _sort_apr_percent(item) # NoApr /\ _sort_apr_percent(item) >= threshold

\* lines 187-188
Matches(item, threshold) ==
  _sort_apr_percent(item) # NoApr /\ _sort_apr_percent(item) > threshold

\* _process_page, lines 185-190
RECURSIVE Matched(_, _)
Matched(items, threshold) ==
  IF items = <<>> THEN <<>>
  ELSE (IF Matches(Head(items), threshold) THEN <<Head(items)>> ELSE <<>>)
         \o Matched(Tail(items), threshold)

\* variant: an entry of exactly ttl seconds is expired
is_expired_at_ttl(timestamp, t_now, ttl) == t_now - timestamp >= ttl

\* CacheEntry.is_expired
is_expired(timestamp, t_now, ttl) == t_now - timestamp > ttl

NoValue == [hit |-> FALSE, data |-> <<>>]     \* Python None

\* ProjectCache.get
cache_get(c, threshold, t_now, ttl) ==
  IF threshold \in DOMAIN c /\ ~is_expired(c[threshold].timestamp, t_now, ttl)
  THEN [hit |-> TRUE, data |-> c[threshold].data]
  ELSE NoValue

\* ProjectCache.set
cache_set(c, threshold, data, t_now) == Put(c, threshold, [data |-> data, timestamp |-> t_now])

\* line 207, `if cached:`: None and the empty list are both false
Truthy(cached) == cached.hit /\ cached.data # <<>>

NoReturn == [kind |-> "none", data |-> <<>>]
NoCall == [thr |-> 0, force |-> FALSE, got |-> NoValue]

InitScan ==
  /\ cache = EmptyMap /\ cnow = 0 /\ nadv = 0
  /\ s_pc = "idle" /\ s_thr = 0 /\ s_tasks = <<>> /\ s_todo = {}
  /\ s_results = <<>> /\ s_got = EmptyMap
  /\ s_ret = NoReturn /\ s_call = NoCall /\ s_called = FALSE

\* fetch_projects_with_apr_gt, lines 204-222: the cache lookup, then one task
\* per page number
scan_start(threshold, force_refresh) ==
  /\ s_pc = "idle"
  /\ s_called' = TRUE
  /\ LET cached == IF force_refresh THEN NoValue ELSE cache_get(cache, threshold, cnow, Ttl)
     IN /\ s_call' = [thr |-> threshold, force |-> force_refresh, got |-> cached]
        /\ s_results' = <<>> /\ s_got' = EmptyMap
        /\ IF ~force_refresh /\ Truthy(cached)
           THEN /\ s_ret' = [kind |-> "cached", data |-> cached.data]
                /\ s_tasks' = <<>> /\ s_todo' = {}
                /\ UNCHANGED <<s_pc, s_thr>>
           ELSE /\ s_pc' = "pages" /\ s_thr' = threshold
                /\ s_tasks' = PageNumbers
                /\ s_todo' = {PageNumbers[i] : i \in DOMAIN PageNumbers}
                /\ s_ret' = NoReturn
  /\ UNCHANGED <<cache, cnow, nadv>>
  /\ UNCHANGED <<monVars, thrVars, retryVars, pureVars>>

\* the first call of a process
scan_first(threshold, force_refresh) ==
  /\ ~s_called
  /\ scan_start(threshold, force_refresh)

\* line 228: results.extend(matched)
Extend(results, matched) == results \o matched

\* a task returns: lines 183-190, then 227-230
process_page_returns(p, items) ==
  /\ s_pc = "pages" /\ p \in s_todo
  /\ s_todo' = s_todo \ {p}
  /\ s_results' = Extend(s_results, Matched(items, s_thr))
  /\ s_got' = Put(s_got, p, [ok |-> TRUE, items |-> items])
  /\ UNCHANGED <<cache, cnow, nadv, s_pc, s_thr, s_tasks, s_ret, s_call, s_called>>
  /\ UNCHANGED <<monVars, thrVars, retryVars, pureVars>>

\* a task raises: future.result() re-raises, lines 231-232
process_page_raises(p, err) ==
  /\ s_pc = "pages" /\ p \in s_todo
  /\ s_todo' = s_todo \ {p}
  /\ s_got' = Put(s_got, p, [ok |-> FALSE, items |-> <<>>])
  /\ s_pc' = IF CaughtByScan(err) THEN s_pc ELSE "raised"
  /\ UNCHANGED <<cache, cnow, nadv, s_thr, s_tasks, s_results, s_ret, s_call, s_called>>
  /\ UNCHANGED <<monVars, thrVars, retryVars, pureVars>>

\* lines 234-237
scan_finish ==
  /\ s_pc = "pages" /\ s_todo = {}
  /\ cache' = cache_set(cache, s_thr, s_results, cnow)
  /\ s_ret' = [kind |-> "scanned", data |-> s_results]
  /\ s_pc' = "idle"
  /\ s_call' = NoCall
  /\ UNCHANGED <<cnow, nadv, s_thr, s_tasks, s_todo, s_results, s_got, s_called>>
  /\ UNCHANGED <<monVars, thrVars, retryVars, pureVars>>

\* time passes between two calls
clock_advance(d) ==
  /\ s_pc = "idle" /\ nadv < MaxAdvances
  /\ cnow' = cnow + d /\ nadv' = nadv + 1
  /\ s_ret' = NoReturn /\ s_call' = NoCall
  /\ s_results' = <<>> /\ s_got' = EmptyMap /\ s_tasks' = <<>>
  /\ UNCHANGED <<cache, s_pc, s_thr, s_todo, s_called>>
  /\ UNCHANGED <<monVars, thrVars, retryVars, pureVars>>

\* ------------------------------ TokenStatus methods (models, 28-34, 104-194)
MaxList == 3           \* longest fixed_list

CoinNames == {"a", "A", "b"}
FixedLists == SeqsUpTo(SaleStatuses, MaxList)

\* constructor arguments; 25 is a rate of 2.5
StatusArgs ==
  [coin : CoinNames, fixed_list : FixedLists, sort_apr : {NoApr, 25}, timestamp : {1, 2}]
FirstArgs == {x \in StatusArgs : x.sort_apr = NoApr /\ x.timestamp = 1}

NoResult ==
  [done |-> FALSE, partial |-> <<>>, available |-> <<>>, sold_out |-> <<>>, emoji |-> <<>>,
   eq |-> FALSE, hash |-> <<>>]

IdleStatus == t_in = <<>> /\ t_obj = <<>> /\ t_res = NoResult

InitStatus ==
  /\ t_in \in {<<x, y>> : x \in FirstArgs, y \in StatusArgs}
  /\ t_obj = <<>> /\ t_res = NoResult

\* the two objects are constructed
status_construct ==
  /\ t_in # <<>> /\ t_obj = <<>>
  /\ t_obj' = [i \in 1..2 |->
                TokenStatus(t_in[i].coin, t_in[i].fixed_list, t_in[i].sort_apr, t_in[i].timestamp)]
  /\ UNCHANGED <<t_in, t_res, f_items, f_key, f_ret, parseVars>>
  /\ UNCHANGED <<monVars, thrVars, retryVars, scanVars>>

\* their methods are called
status_evaluate ==
  /\ t_obj # <<>> /\ ~t_res.done
  /\ t_res' = [done |-> TRUE,
               partial |-> [i \in 1..2 |-> is_partially_available(t_obj[i])],
               available |-> [i \in 1..2 |-> is_available(t_obj[i])],
               sold_out |-> [i \in 1..2 |-> is_sold_out(t_obj[i])],
               emoji |-> [i \in 1..2 |-> get_status_emoji(t_obj[i])],
               eq |-> TokenStatus_eq(t_obj[1], t_obj[2]),
               hash |-> [i \in 1..2 |-> TokenStatus_hash(t_obj[i])]]
  /\ UNCHANGED <<t_in, t_obj, f_items, f_key, f_ret, parseVars>>
  /\ UNCHANGED <<monVars, thrVars, retryVars, scanVars>>

\* ------------------------------ single-asset lookup (parser_gate, 169-179)
MaxFound == 3          \* records in one search response

LookupAssets == {"a", "A", "b"}
LookupRecords ==
  [asset : LookupAssets, fixed_list : {<<[sale_status |-> x]>> : x \in SaleStatuses},
   sort_apr : {RawNone}]
LookupLists == SeqsUpTo(LookupRecords, MaxFound)

\* the callers pass a ticker without surrounding blanks (telegram_bot lines
\* 365, 446, 680), in the case the user typed or lower-cased
SearchKeys == {"a", "A", "c"}

NoLookup == [done |-> FALSE, value |-> NoInfo]

IdleLookup == f_items = <<>> /\ f_key = "-" /\ f_ret = NoLookup

InitLookup == f_items \in LookupLists /\ f_key \in SearchKeys /\ f_ret = NoLookup

\* fetch_token_info(search_coin) on the response f_items
lookup_returns ==
  /\ f_key # "-" /\ ~f_ret.done
  /\ f_ret' = [done |-> TRUE, value |-> fetch_token_info(f_items, f_key)]
  /\ UNCHANGED <<t_in, t_obj, t_res, f_items, f_key, parseVars>>
  /\ UNCHANGED <<monVars, thrVars, retryVars, scanVars>>

\* --------------------- conversions of one record (models 36-102) and the
\* --------------------- response envelope (parser_gate 138-146)
MaxEntries == 2        \* entries of the fixed_list of a record

\* sale_status values the marketplace may send: 1, 2 and others
RawSaleStatuses == {0, 1, 2, 3}

\* entries of a fixed_list: with a sale_status, or without the key
RawEntries == {[sale_status |-> x] : x \in RawSaleStatuses} \cup {[apr |-> 0]}

RawRecords ==
  [asset : {"a", "A"}, fixed_list : SeqsUpTo(RawEntries, MaxEntries),
   sort_apr : {RawNone, RawNum(25)}]

\* values under the keys of a payload: lists of records (numbered), other
\* values, or nothing
PayloadLists == {ListOf(<<>>), ListOf(<<1>>), ListOf(<<2>>)}
Leaves == {Absent, Scalar} \cup PayloadLists
Payloads ==
  [data : Leaves \cup {DictOf(f) : f \in [list : Leaves, rows : Leaves, data : Leaves]},
   list : Leaves, result : Leaves, rows : Leaves]

NoObject == [built |-> FALSE]
NoEnvelope == [done |-> FALSE, value |-> <<>>]

IdleParse ==
  /\ p_item = <<>> /\ p_now = 0 /\ p_obj = NoObject /\ p_str = <<>> /\ p_back = NoObject
  /\ e_payload = <<>> /\ e_ret = NoEnvelope

InitConvert ==
  /\ p_item \in RawRecords /\ p_now \in {1, 2}
  /\ p_obj = NoObject /\ p_str = <<>> /\ p_back = NoObject
  /\ e_payload = <<>> /\ e_ret = NoEnvelope

InitEnvelope ==
  /\ p_item = <<>> /\ p_now = 0 /\ p_obj = NoObject /\ p_str = <<>> /\ p_back = NoObject
  /\ e_payload \in Payloads /\ e_ret = NoEnvelope

Built(obj) == [built |-> TRUE, value |-> obj]

\* TokenStatus.from_api_response(p_item)
convert_record ==
  /\ p_item # <<>> /\ ~p_obj.built
  /\ p_obj' = Built(from_api_response(p_item, p_now))
  /\ UNCHANGED <<p_item, p_now, p_str, p_back, e_payload, e_ret>>
  /\ UNCHANGED <<t_in, t_obj, t_res, f_items, f_key, f_ret>>
  /\ UNCHANGED <<monVars, thrVars, retryVars, scanVars>>

\* p_obj.to_string()
convert_store ==
  /\ p_obj.built /\ p_str = <<>>
  /\ p_str' = <<to_string(p_obj.value)>>
  /\ UNCHANGED <<p_item, p_now, p_obj, p_back, e_payload, e_ret>>
  /\ UNCHANGED <<t_in, t_obj, t_res, f_items, f_key, f_ret>>
  /\ UNCHANGED <<monVars, thrVars, retryVars, scanVars>>

\* TokenStatus.from_string(coin, p_str)
convert_restore ==
  /\ p_str # <<>> /\ ~p_back.built
  /\ ~from_string_raises(p_str[1])
  /\ p_back' = Built(from_string(p_obj.value.coin, p_str[1]))
  /\ UNCHANGED <<p_item, p_now, p_obj, p_str, e_payload, e_ret>>
  /\ UNCHANGED <<t_in, t_obj, t_res, f_items, f_key, f_ret>>
  /\ UNCHANGED <<monVars, thrVars, retryVars, scanVars>>

\* _extract_projects(e_payload)
envelope_returns ==
  /\ e_payload # <<>> /\ ~e_ret.done
  /\ e_ret' = [done |-> TRUE, value |-> _extract_projects(e_payload)]
  /\ UNCHANGED <<p_item, p_now, p_obj, p_str, p_back, e_payload>>
  /\ UNCHANGED <<t_in, t_obj, t_res, f_items, f_key, f_ret>>
  /\ UNCHANGED <<monVars, thrVars, retryVars, scanVars>>

\* ---------------------------------------------------------- specifications
vars == <<monVars, thrVars, sideVars>>

\* every Telegram request goes through
SendsWork == sendFails = {}

\* the side components at rest
IdleSide == IdleRetry /\ InitScan /\ IdleStatus /\ IdleLookup /\ IdleParse

Init == InitMonitor /\ SendsWork /\ InitThrottle /\ IdleSide

Next ==
  \/ \E chat \in Chats : add_subscriber_db(chat)
  \/ add_subscriber_mem
  \/ \E chat \in Chats, coin \in Coins : set_watch_no_data(chat, coin)
  \/ \E chat \in Chats, coin \in Coins, items \in ItemLists : set_watch_record(chat, coin, items)
  \/ set_watch_mem
  \/ \E chat \in Chats, coin \in Coins : remove_watch_db(chat, coin)
  \/ remove_watch_mem
  \/ \E chat \in Chats : clear_watches_db(chat)
  \/ clear_watches_mem
  \/ \E chat \in Chats, paused \in BOOLEAN : set_paused(chat, paused)
  \/ StartPass
  \/ \E k \in Keys : NextWatch(k)
  \/ FetchRaises
  \/ \E items \in ItemLists : FetchReturns(items)
  \/ update_status_db
  \/ update_status_mem
  \/ EndPass

Spec == Init /\ [][Next]_vars

NextThrottle ==
  \/ \E t \in Threads : wait_enter(t)
  \/ \E t \in Threads, delay \in MinDelay..MaxDelay : wait_stamp(t, delay)
  \/ \E t \in Threads : send_request(t)
  \/ Tick

\* the throttle on its own, next to a bot started on an empty database
\* monitor and throttle of a bot started on an empty database
FreshBot ==
  /\ InitThrottle
  /\ InitMonitor /\ SendsWork
  /\ LoadedFrom({}, {}, EmptyMap)

InitFresh == FreshBot /\ IdleSide

SpecThrottle == InitFresh /\ [][NextThrottle]_vars

\* one call of retry_with_backoff
NextRetry ==
  \/ \E outcome \in Outcomes : retry_attempt(outcome)
  \/ retry_exhausted

InitRetryCall == FreshBot /\ InitRetry /\ InitScan /\ IdleStatus /\ IdleLookup /\ IdleParse

SpecRetry == InitRetryCall /\ [][NextRetry]_vars

\* one scan of a process whose cache is empty
NextScan ==
  \/ \E threshold \in Thresholds, force_refresh \in BOOLEAN : scan_first(threshold, force_refresh)
  \/ \E p \in 1..TotalPages, items \in PageLists : process_page_returns(p, items)
  \/ \E p \in 1..TotalPages, err \in PageErrors : process_page_raises(p, err)
  \/ scan_finish

SpecScan == InitFresh /\ [][NextScan]_vars

\* calls of the scan over time: the cache fills and expires
NextCache ==
  \/ \E threshold \in Thresholds, force_refresh \in BOOLEAN : scan_start(threshold, force_refresh)
  \/ \E p \in 1..TotalPages, items \in CachePayloads : process_page_returns(p, items)
  \/ scan_finish
  \/ \E d \in ClockSteps : clock_advance(d)

SpecCache == InitFresh /\ [][NextCache]_vars

\* calls of the scan over time while page tasks may fail
NextStore ==
  \/ \E threshold \in Thresholds, force_refresh \in BOOLEAN : scan_start(threshold, force_refresh)
  \/ \E p \in 1..TotalPages, items \in CachePayloads : process_page_returns(p, items)
  \/ \E p \in 1..TotalPages, err \in PageErrors : process_page_raises(p, err)
  \/ scan_finish
  \/ \E d \in ClockSteps : clock_advance(d)

SpecStore == InitFresh /\ [][NextStore]_vars

\* the monitor while Telegram requests fail for some chats
NextSend ==
  \/ StartPass
  \/ \E k \in Keys : NextWatch(k)
  \/ FetchRaises
  \/ \E items \in ItemLists : FetchReturns(items)
  \/ update_status_db
  \/ update_status_mem
  \/ EndPass
  \/ \E failing \in SUBSET Chats : telegram_changes(failing)

InitSend == InitMonitor /\ sendFails \in SUBSET Chats /\ InitThrottle /\ IdleSide

SpecSend == InitSend /\ [][NextSend]_vars

\* the maintenance script working on the database of a loaded bot
NextCleanup ==
  \/ \E chat \in Chats, coin \in Coins : cleanup_remove_watch(chat, coin)
  \/ \E chat \in Chats : cleanup_remove_subscriber(chat)

SpecCleanup == Init /\ [][NextCleanup]_vars

\* methods of two TokenStatus objects
NextStatus == status_construct \/ status_evaluate

InitStatusCall == FreshBot /\ IdleRetry /\ InitScan /\ InitStatus /\ IdleLookup /\ IdleParse

SpecStatus == InitStatusCall /\ [][NextStatus]_vars

\* one single-asset lookup
NextLookup == lookup_returns

InitLookupCall == FreshBot /\ IdleRetry /\ InitScan /\ IdleStatus /\ InitLookup /\ IdleParse

SpecLookup == InitLookupCall /\ [][NextLookup]_vars

\* one record converted, serialized and restored
NextConvert == convert_record \/ convert_store \/ convert_restore

InitConvertCall == FreshBot /\ IdleRetry /\ InitScan /\ IdleStatus /\ IdleLookup /\ InitConvert

SpecConvert == InitConvertCall /\ [][NextConvert]_vars

\* one response payload unwrapped
NextEnvelope == envelope_returns

InitEnvelopeCall == FreshBot /\ IdleRetry /\ InitScan /\ IdleStatus /\ IdleLookup /\ InitEnvelope

SpecEnvelope == InitEnvelopeCall /\ [][NextEnvelope]_vars

\* ------------------------------------------------------------- properties
\* a step of the monitor thread
MonitorStep == pc' # pc \/ todo' # todo

PassOver == passes > 0 /\ pc \in {"sleep", "crashed"}

FailureStateZero ==
  ~global_alerted /\ global_failures = 0 /\ coin_failures = EmptyMap /\ coin_alerted = {}

\* C1: a run of failing passes that started in NORMAL sends exactly one
\* alert; a later pass that contains a successful fetch ends with exactly one
\* recovery broadcast sent and the whole FailureState back at zero.
C1_OneAlertThenRecovery ==
  /\ global_alerted => runAlerts = 1
  /\ (PassOver /\ startedDegraded /\ any_success)
       => (lastSent.kind = "recovery" /\ FailureStateZero)

\* C2: an alert is sent only by a failed poll that turns global_alerted from
\* false to true, a recovery only by a step that turns it from true to false,
\* a failed poll under an active alert sends no alert, and alerts and
\* recoveries alternate, starting with an alert.
C2_BroadcastsOnEdgesOnly ==
  [][MonitorStep =>
       /\ lastSent'.kind = "alert" =>
            (pc = "fetch" /\ ~global_alerted /\ global_alerted' /\ lastBroadcast # "alert")
       /\ lastSent'.kind = "recovery" =>
            (global_alerted /\ ~global_alerted' /\ lastBroadcast = "alert")
       /\ (pc = "fetch" /\ global_alerted) => lastSent'.kind # "alert"]_vars

C2_Witness ==
  /\ lastSent.kind = "recovery"
  /\ \E k \in Keys : streakAlerts[k] = 0

\* C3: while one watch keeps failing pass after pass, at most one alert is
\* broadcast, also when other watches succeed in those passes.
C3_OneAlertPerIncident == \A k \in Keys : streakAlerts[k] <= 1

UpdateReturns == pc \in {"update", "update_mem"} /\ pc' = "loop"

Notified == lastSent' = [kind |-> "change", to |-> {cur[1]}, coin |-> cur[2]]

\* C5 (as claimed): a change notification goes to the chat exactly when
\* update_status wrote and the (asset_id, fixed_list) pair of the new record
\* differs from the pair rebuilt from the stored status (none counts as
\* different).
C5_NotifyIffPairDiffers ==
  [][UpdateReturns =>
       (Notified <=>
          /\ watch' # watch
          /\ \/ ~fetched.had
             \/ <<cur[2], fetched.old.fixed_list>>
                  # <<fetched.info.asset, CollectSaleStatus(fetched.info.fixed_list)>>)]_vars

\* C5 (amended): a change notification goes to the chat exactly when
\* update_status wrote and the fixed_list of the new record differs from the
\* fixed_list of the stored status (none counts as different); the asset
\* identifier of the record is not compared.
C5_NotifyIffFixedListDiffers ==
  [][UpdateReturns =>
       (Notified <=>
          /\ watch' # watch
          /\ \/ ~fetched.had
             \/ fetched.old.fixed_list # CollectSaleStatus(fetched.info.fixed_list))]_vars

\* a fallback record with an unchanged fixed_list was written without a
\* notification, and another poll was notified
C5_Witness ==
  /\ \E k \in DOMAIN polls : /\ polls[k].rec.asset # k[2]
                             /\ polls[k].wrote /\ ~polls[k].notified
  /\ \E k \in DOMAIN polls \cup DOMAIN prevPolls :
       IF k \in DOMAIN polls THEN polls[k].notified ELSE prevPolls[k].notified

\* C6: the identical record in two consecutive passes gives exactly one
\* status write over the two passes and no notification in the second.
C6_IdenticalRecordOneWrite ==
  \A k \in DOMAIN polls \cap DOMAIN prevPolls :
    polls[k].rec = prevPolls[k].rec =>
      /\ (polls[k].wrote /\ ~prevPolls[k].wrote) \/ (~polls[k].wrote /\ prevPolls[k].wrote)
      /\ ~polls[k].notified

\* C7: no error of one watch halts the pass or the periodic loop.
C7_PassNeverHalts == pc # "crashed"

\* C8: whenever the registry lock is free, the in-memory watches are exactly
\* the rows of the watches table.
C8_RegistryMatchesStore == lock = "free" => Triples(watch) = Triples(dbWatch)

\* C9: wait_if_needed is one critical section, consecutive stamps are at
\* least min_interval apart, N releases span at least (N-1) * min_interval,
\* and last_request, always the latest stamp, never decreases.
C9_ThrottleSpacing ==
  /\ Cardinality({t \in Threads : tpc[t] = "locked"}) <= 1
  /\ \A i \in 1..(Len(stamps) - 1) : stamps[i + 1] - stamps[i] >= MinInterval
  /\ stamps # <<>> => stamps[Len(stamps)] - stamps[1] >= (Len(stamps) - 1) * MinInterval
  /\ last_request = IF stamps = <<>> THEN 0 ELSE stamps[Len(stamps)]

\* three releases by two threads, the later ones delayed by the throttle
C9_Witness ==
  /\ Len(stamps) >= 3
  /\ stamps[3] - stamps[1] = 2 * MinInterval
  /\ \E t \in Threads : tpc[t] = "locked" /\ twake[t] > tnow

\* C10: any two requests sent to the marketplace are at least min_interval
\* apart.
C10_RequestsSpaced ==
  \A i \in 1..(Len(requests) - 1) : requests[i + 1] - requests[i] >= MinInterval

\* ----------------------------------------------------- properties: retry
IsServerError(o) == o.kind = "http" /\ o.code \in 500..599
IsRateLimited(o) == o.kind = "http" /\ o.code = 429
IsClientError(o) == o.kind = "http" /\ o.code \in (400..499) \ {429}
IsTransport(o) == o.kind = "transport"
IsRetryable(o) == IsServerError(o) \/ IsRateLimited(o) \/ IsTransport(o)

\* C11: when attempts 1..k-1 fail with a 5xx status or a transport error and
\* attempt k succeeds, there are exactly k-1 sleeps, the i-th of
\* min(base_delay * 2^(i-1), max_delay), exactly k invocations, and the value
\* of the k-th invocation is returned.
C11_BackoffSchedule ==
  LET k == Len(r_outcomes)
  IN (/\ r_pc = "returned"
      /\ \A i \in 1..(k - 1) : IsServerError(r_outcomes[i]) \/ IsTransport(r_outcomes[i]))
       => /\ Len(r_sleeps) = k - 1
          /\ \A i \in 1..(k - 1) : r_sleeps[i] = Min(r_base * Pow2(i - 1), r_cap)
          /\ r_outcomes[k].kind = "ok" /\ r_value = k

\* success on the third attempt after a server error and a transport error,
\* the second delay capped by max_delay
C11_Witness ==
  /\ r_pc = "returned" /\ Len(r_outcomes) = 3
  /\ IsServerError(r_outcomes[1]) /\ IsTransport(r_outcomes[2])
  /\ r_sleeps = <<40, 60>>

\* C12: an HTTP 4xx other than 429 is re-raised at once: it is the last
\* invocation, it is the error that escapes, and no sleep follows it (none at
\* all when it is the first attempt).
C12_ClientErrorNotRetried ==
  \A i \in DOMAIN r_outcomes :
    IsClientError(r_outcomes[i]) =>
      /\ i = Len(r_outcomes) /\ r_pc = "raised"
      /\ r_escaped = ErrorOf(r_outcomes[i], i)
      /\ Len(r_sleeps) = i - 1

\* a client error on attempt 1 of 3: raised with zero sleeps
C12_Witness ==
  /\ r_pc = "raised" /\ r_max = 3 /\ Len(r_outcomes) = 1
  /\ IsClientError(r_outcomes[1]) /\ r_sleeps = <<>>

\* C13: the sleep after a 429 is the fixed cooldown, whatever the attempt,
\* base_delay and max_delay; the 429 uses up one attempt, so an operation
\* that always answers 429 is invoked exactly max_attempts times.
C13_RateLimitCooldown ==
  /\ \A i \in DOMAIN r_sleeps : IsRateLimited(r_outcomes[i]) => r_sleeps[i] = 60
  /\ r_pc = "loop" => r_attempt = Len(r_outcomes) + 1
  /\ (r_pc = "raised" /\ \A i \in DOMAIN r_outcomes : IsRateLimited(r_outcomes[i]))
       => Len(r_outcomes) = r_max

\* three 429 answers out of three attempts, with max_delay below the cooldown
C13_Witness ==
  /\ r_pc = "raised" /\ r_max = 3 /\ r_cap = 30
  /\ \A i \in 1..3 : IsRateLimited(r_outcomes[i])
  /\ r_sleeps = <<60, 60>>

\* C14: for every max_attempts >= 0 the operation is invoked at most
\* max_attempts times; when every attempt fails with a retryable error it is
\* invoked exactly max_attempts times, nothing is slept after the last
\* attempt, and the error raised is the one of the last attempt, never an
\* unrelated error.
C14_RetryExhaustion ==
  /\ Len(r_outcomes) <= r_max
  /\ (r_pc = "raised" /\ \A i \in DOMAIN r_outcomes : IsRetryable(r_outcomes[i]))
       => /\ Len(r_outcomes) = r_max
          /\ Len(r_sleeps) = (IF r_max = 0 THEN 0 ELSE r_max - 1)
          /\ r_escaped.kind # "type_error"
          /\ r_max > 0 => r_escaped = ErrorOf(r_outcomes[r_max], r_max)

\* C15: an error escapes only as a client error (4xx other than 429) or
\* once all max_attempts attempts have been used.
C15_OnlyClientErrorOrExhausted ==
  r_pc = "raised" =>
    \/ r_escaped.kind = "http" /\ r_escaped.code \in (400..499) \ {429}
    \/ Len(r_outcomes) = r_max

\* ------------------------------------------- properties: scan and cache
CountIn(seq, x) == Cardinality({i \in DOMAIN seq : seq[i] = x})

\* pages whose task returned a payload
PagesFetched == {p \in DOMAIN s_got : s_got[p].ok}

\* occurrences of rec among the matching records of the pages P
RECURSIVE MatchesOn(_, _)
MatchesOn(P, rec) ==
  IF P = {} THEN 0
  ELSE LET p == CHOOSE x \in P : TRUE
       IN CountIn(Matched(s_got[p].items, s_thr), rec) + MatchesOn(P \ {p}, rec)

\* C16: whatever set of pages fails, the scan does not raise, and what it
\* returns is exactly the matching records of the pages that did not fail.
C16_FailedPagesSkipped ==
  /\ s_pc # "raised"
  /\ s_ret.kind = "scanned" =>
       /\ DOMAIN s_got = 1..TotalPages
       /\ \A rec \in ScanRecords : CountIn(s_ret.data, rec) = MatchesOn(PagesFetched, rec)

\* page 2 of 3 failed, pages 1 and 3 each gave a match
C16_Witness ==
  /\ s_ret.kind = "scanned" /\ DOMAIN s_got = {1, 2, 3}
  /\ ~s_got[2].ok /\ s_got[1].ok /\ s_got[3].ok
  /\ Matched(s_got[1].items, s_thr) # <<>> /\ Matched(s_got[3].items, s_thr) # <<>>
  /\ Len(s_ret.data) = 2

\* C17: a scan that misses the cache submits one task for each page number
\* 1..total_pages, and a record is in the result exactly when a fetched page
\* holds it and its parsed rate is present and strictly above the threshold.
C17_OneTaskPerPageStrictFilter ==
  /\ s_pc = "pages" =>
       /\ Len(s_tasks) = TotalPages
       /\ \A n \in 1..TotalPages : CountIn(s_tasks, n) = 1
       /\ s_todo \cup DOMAIN s_got = 1..TotalPages
  /\ s_ret.kind = "scanned" =>
       \A rec \in ScanRecords :
         CountIn(s_ret.data, rec) > 0 <=>
           /\ \E p \in PagesFetched : CountIn(s_got[p].items, rec) > 0
           /\ _sort_apr_percent(rec) # NoApr
           /\ _sort_apr_percent(rec) > s_thr

\* threshold 3.0: a rate of 3.0, an absent rate and an unparsable rate were
\* fetched and left out, "3,5%" was kept
C17_Witness ==
  /\ s_ret.kind = "scanned" /\ s_thr = 30
  /\ s_ret.data = <<[asset |-> "a", sort_apr |-> RawStr(<<"3", ",", "5", "%">>)]>>
  /\ \E p \in PagesFetched : CountIn(s_got[p].items, [asset |-> "a", sort_apr |-> RawNum(30)]) > 0
  /\ \E p \in PagesFetched : s_got[p].items = <<[asset |-> "a", sort_apr |-> RawNone]>>
  /\ \E p \in PagesFetched : s_got[p].items = <<[asset |-> "a", sort_apr |-> RawStr(<<"n", "/", "a">>)]>>

\* a call of fetch_projects_with_apr_gt; its arguments are in s_call'
CallStep == s_pc = "idle" /\ s_call' # NoCall /\ s_call' # s_call

\* the cache holds an entry for threshold t that is at most Ttl old
FreshEntry(t) == t \in DOMAIN cache /\ cnow - cache[t].timestamp <= Ttl

\* C18: a call without force_refresh that finds a non-expired entry for its
\* threshold, whatever its payload, starts no page fetch and returns the
\* cached payload.
C18_CacheHitShortCircuits ==
  [][(CallStep /\ ~s_call'.force /\ FreshEntry(s_call'.thr)) =>
       /\ s_pc' = "idle" /\ s_todo' = {} /\ s_tasks' = <<>>
       /\ s_ret' = [kind |-> "cached", data |-> cache[s_call'.thr].data]]_vars

\* C19: get gives the data stored for that threshold while the entry is at
\* most ttl old (exactly ttl included) and nothing once it is older or when
\* only another threshold is cached; after expiry the call runs the full
\* scan; set stores data and the time for its threshold only.
C19_CacheTtl ==
  [][/\ (CallStep /\ ~s_call'.force) =>
          /\ s_call'.got = IF FreshEntry(s_call'.thr)
                           THEN [hit |-> TRUE, data |-> cache[s_call'.thr].data]
                           ELSE NoValue
          /\ ~FreshEntry(s_call'.thr) => (s_pc' = "pages" /\ s_tasks' = PageNumbers)
     /\ (s_pc = "pages" /\ s_pc' = "idle") =>
          /\ cache'[s_thr] = [data |-> s_ret'.data, timestamp |-> cnow]
          /\ \A u \in DOMAIN cache \ {s_thr} : cache'[u] = cache[u]]_vars

\* a hit on a non-empty entry that is exactly ttl old
C19_Witness ==
  /\ s_call.got.hit /\ s_call.got.data # <<>>
  /\ cnow - cache[s_call.thr].timestamp = Ttl

\* ---------------------------------------------- properties: update_status
\* C20: update_status returns true exactly when the stored status of the
\* watch differs from the new one; after true, persistence and the in-memory
\* map both hold the new status; after false neither changed; no other watch
\* is touched.
C20_UpdateStatusWritesThrough ==
  [][UpdateReturns =>
       LET new_status == to_string(fetched.ts)
       IN /\ (pc = "update_mem") <=> ~HasStatus(cur, new_status)
          /\ pc = "update_mem" =>
               /\ cur \in DOMAIN watch' /\ watch'[cur] = new_status
               /\ cur \in DOMAIN dbWatch' /\ dbWatch'[cur] = new_status
          /\ pc = "update" => (watch' = watch /\ dbWatch' = dbWatch)
          /\ Drop(watch', {cur}) = Drop(watch, {cur})
          /\ Drop(dbWatch', {cur}) = Drop(dbWatch, {cur})]_vars

\* ------------------------------------------------ properties: TokenStatus
Has(list, x) == \E i \in DOMAIN list : list[i] = x

\* the lists hold the same entries, each as many times
SameMultiset(l1, l2) ==
  Len(l1) = Len(l2) /\ \A x \in SaleStatuses : CountIn(l1, x) = CountIn(l2, x)

\* C21 (as claimed): partial iff the list holds a 1 and a 2, available iff
\* it holds a 1 and no 2, sold-out iff it is non-empty and all 2, unknown iff
\* it is empty; exactly one of the four predicates holds; get_status_emoji
\* follows the priority partial, available, sold-out, unknown; the result is
\* the same for every permutation of the list.
C21_ExactlyOnePredicate ==
  t_res.done =>
    /\ \A i \in 1..2 :
         LET l == t_in[i].fixed_list
             unknown == ~t_res.partial[i] /\ ~t_res.available[i] /\ ~t_res.sold_out[i]
         IN /\ t_res.partial[i] <=> (Has(l, 1) /\ Has(l, 2))
            /\ t_res.available[i] <=> (Has(l, 1) /\ ~Has(l, 2))
            /\ t_res.sold_out[i] <=> (l # <<>> /\ ~Has(l, 1))
            /\ unknown <=> l = <<>>
            /\ Cardinality({c \in {"partial", "available", "sold_out"} : t_res[c][i]}) <= 1
            /\ t_res.emoji[i] = IF t_res.partial[i] THEN "yellow"
                                ELSE IF t_res.available[i] THEN "green"
                                ELSE IF t_res.sold_out[i] THEN "red" ELSE "white"
    /\ SameMultiset(t_in[1].fixed_list, t_in[2].fixed_list) => t_res.emoji[1] = t_res.emoji[2]

\* C21 (amended): the class get_status_emoji returns is partial iff the list
\* holds a 1 and a 2, available iff it holds a 1 and no 2, sold-out iff it is
\* non-empty and all 2, unknown iff it is empty, the same for every
\* permutation of the list; is_partially_available and is_sold_out hold for
\* exactly those lists, is_available holds for every list with a 1 (the
\* partial ones included), and the priority partial, available, sold-out,
\* unknown decides.
C21_ClassByPriority ==
  t_res.done =>
    /\ \A i \in 1..2 :
         LET l == t_in[i].fixed_list
         IN /\ t_res.emoji[i] = "yellow" <=> (Has(l, 1) /\ Has(l, 2))
            /\ t_res.emoji[i] = "green" <=> (Has(l, 1) /\ ~Has(l, 2))
            /\ t_res.emoji[i] = "red" <=> (l # <<>> /\ ~Has(l, 1))
            /\ t_res.emoji[i] = "white" <=> l = <<>>
            /\ t_res.partial[i] <=> (Has(l, 1) /\ Has(l, 2))
            /\ t_res.available[i] <=> Has(l, 1)
            /\ t_res.sold_out[i] <=> (l # <<>> /\ ~Has(l, 1))
            /\ t_res.emoji[i] = IF t_res.partial[i] THEN "yellow"
                                ELSE IF t_res.available[i] THEN "green"
                                ELSE IF t_res.sold_out[i] THEN "red" ELSE "white"
    /\ SameMultiset(t_in[1].fixed_list, t_in[2].fixed_list) => t_res.emoji[1] = t_res.emoji[2]

\* [1, 2, 2] and its permutation [2, 1, 2] are both classified partial
C21_Witness ==
  /\ t_res.done
  /\ t_in[1].fixed_list = <<1, 2, 2>> /\ t_in[2].fixed_list = <<2, 1, 2>>
  /\ t_res.emoji = <<"yellow", "yellow">> /\ t_res.available = <<TRUE, TRUE>>

\* --------------------------------------------- properties: single lookup
\* the same identifier, whatever the case of its letters
SameAsset(x, y) == x = y \/ {x, y} \in {{"a", "A"}, {"b", "B"}}

\* C22: fetch_token_info returns none exactly for an empty result set;
\* otherwise the first record, in response order, whose asset equals the key
\* case-insensitively, and the first record when there is none.
C22_FirstMatchOrFirstRecord ==
  f_ret.done =>
    /\ f_ret.value = NoInfo <=> f_items = <<>>
    /\ f_items # <<>> =>
         LET hits == {i \in DOMAIN f_items : SameAsset(f_items[i].asset, f_key)}
         IN f_ret.value = IF hits = {} THEN f_items[1]
                          ELSE f_items[CHOOSE i \in hits : \A j \in hits : i <= j]

\* key "a": the second record, spelled "A", is returned although the third
\* matches too; the first record is another asset
C22_Witness ==
  /\ f_ret.done /\ f_key = "a" /\ Len(f_items) = 3
  /\ f_items[1].asset = "b" /\ f_items[2].asset = "A" /\ f_items[3].asset = "a"
  /\ f_items[2] # [f_items[3] EXCEPT !.asset = "A"]
  /\ f_ret.value = f_items[2]

C23_FailureStateWrittenUnderLock ==
  [][failureVars' # failureVars => lock # "main"]_vars

\* the monitor reaches watch k of its snapshot
Reaches(k) == pc = "loop" /\ k \in todo /\ k \notin todo'

C25_SendFailureChangesNothing ==
  [][(MonitorStep /\ lastSent'.kind # "none") =>
       /\ pc' # "crashed"
       /\ lastSent'.kind = "alert" =>
            /\ lastSent'.to = subscribers
            /\ pc' = "loop" /\ todo' = todo
            /\ global_alerted'
            /\ UNCHANGED <<registryVars, global_failures, coin_failures, coin_alerted>>
       /\ lastSent'.kind = "change" =>
            /\ lastSent'.to = {cur[1]}
            /\ pc' = "loop" /\ todo' = todo
            /\ watch' = Put(watch, cur, to_string(fetched.ts))
            /\ UNCHANGED <<subscribers, dbSubscribers, dbPaused, dbWatch, failureVars>>
       /\ lastSent'.kind = "recovery" =>
            /\ lastSent'.to = subscribers
            /\ pc' = "sleep"
            /\ FailureStateZero'
            /\ UNCHANGED <<subscribers, watch, dbSubscribers, dbPaused, dbWatch>>]_vars

\* the alert failed for c1, was still sent to c2, and the pass went on
C25_Witness ==
  /\ lastSent.kind = "alert" /\ lastSent.to = {"c1", "c2"} /\ lastFailed = {"c1"}
  /\ pc = "loop" /\ global_alerted

\* ---------------------------------------------- properties: subscribers
\* remove_subscriber(chat) is carried out: the row of the chat is deleted
RemovesSubscriber(chat) == chat \in dbSubscribers /\ chat \notin dbSubscribers'

OfChat(w, chat) == {k \in DOMAIN w : k[1] = chat}

\* C27: after remove_subscriber(chat) the chat is no subscriber and has no
\* watch, in memory and in persistence, and the subscribers and watches of
\* the other chats are as before.
C27_RemoveSubscriberCascades ==
  [][\A chat \in Chats :
       RemovesSubscriber(chat) =>
         /\ chat \notin subscribers' /\ chat \notin dbSubscribers'
         /\ OfChat(watch', chat) = {} /\ OfChat(dbWatch', chat) = {}
         /\ subscribers' \ {chat} = subscribers \ {chat}
         /\ dbSubscribers' \ {chat} = dbSubscribers \ {chat}
         /\ Drop(watch', OfChat(watch', chat)) = Drop(watch, OfChat(watch, chat))
         /\ Drop(dbWatch', OfChat(dbWatch', chat)) = Drop(dbWatch, OfChat(dbWatch, chat))]_vars

\* ---------------------------------------------- properties: write order
\* the watches whose in-memory entry is created or changed by the step
Written == {k \in DOMAIN watch' : k \notin DOMAIN watch \/ watch[k] # watch'[k]}

\* C29: every registry mutation writes persistence before memory inside one
\* critical section: whenever the in-memory subscriber set or watch map
\* changes, the lock is held and persistence already holds the change, so
\* persistence is never behind the in-memory copy.
C29_PersistenceNotBehind ==
  [][/\ (subscribers' # subscribers \/ watch' # watch) => lock # "free"
     /\ \A chat \in subscribers' \ subscribers : chat \in dbSubscribers'
     /\ \A k \in Written : k \in DOMAIN dbWatch' /\ dbWatch'[k] = watch'[k]
     /\ \A k \in DOMAIN watch \ DOMAIN watch' : k \notin DOMAIN dbWatch']_vars

\* a successful fetch of the current watch: a record was found
FetchSucceeds == pc = "fetch" /\ pc' # "fetch" /\ now' # now

\* C28: for a watch whose stored status is absent or the placeholder
\* "no_data", a successful poll goes on to update_status, which writes the
\* fresh serialized status and is followed by one change notification to the
\* chat.
C28_NoPriorStatusIsChanged ==
  [][/\ (FetchSucceeds /\ (cur \notin DOMAIN watch \/ watch[cur] = NoData)) =>
          (pc' = "update" /\ fetched'.changed)
     /\ (UpdateReturns /\ (~fetched.had \/ fetched.old = NoData)) =>
          (watch' = Put(watch, cur, to_string(fetched.ts)) /\ Notified)]_vars

\* the fetch of the current watch raised or found nothing
FetchFails == pc = "fetch" /\ pc' # "fetch" /\ now' = now

\* C30: a failed poll leaves the watch as it is in memory and in
\* persistence, does not call update_status, sends no change notification,
\* and the pass goes on with the watches that are left.
C30_FailedPollLeavesWatch ==
  [][FetchFails =>
       /\ UNCHANGED <<watch, dbWatch>>
       /\ polls' = polls
       /\ lastSent'.kind # "change"
       /\ pc' = "loop" /\ todo' = todo]_vars

\* in one pass the poll of a watch failed (the alert went out), its stored
\* status is the one loaded at start, and the monitor is fetching the next
\* watch
C30_Witness ==
  /\ ncmds = 0 /\ passes = 1 /\ pc = "fetch" /\ cur = <<"c2", "a">>
  /\ global_alerted /\ polls = EmptyMap /\ todo = {}
  /\ DOMAIN watch = {<<"c1", "a">>, <<"c2", "a">>} /\ dbPaused = {}
  /\ watch[<<"c1", "a">>] = dbWatch[<<"c1", "a">>] /\ watch[<<"c1", "a">>].timestamp = 0

\* ------------------------------------------- properties: metadata changes
\* the record polled for the watch cur names the watched asset and carries
\* the fixed_list of the stored status
SameObservation ==
  /\ fetched.had
  /\ Lower(fetched.info.asset) = cur[2]
  /\ CollectSaleStatus(fetched.info.fixed_list) = fetched.old.fixed_list

C32_FailedPollCounted ==
  [][FetchFails => global_failures' = global_failures + 1]_vars

\* C33: coin_failures and coin_alerted are empty in every state, and the
\* monitor decides on alerts from global_alerted alone: a failed poll
\* broadcasts an alert exactly when no alert is active (and somebody is
\* subscribed), the end of a pass recovers exactly when the pass had a
\* success under an active alert.
C33_PerAssetStateDead ==
  [][/\ coin_failures = EmptyMap /\ coin_alerted = {}
     /\ coin_failures' = EmptyMap /\ coin_alerted' = {}
     /\ FetchFails =>
          /\ lastSent'.kind = "alert" <=> (~global_alerted /\ subscribers # {})
          /\ global_alerted'
     /\ (pc = "loop" /\ pc' = "sleep") =>
          (global_alerted' # global_alerted <=> (any_success /\ global_alerted))]_vars

\* after a command and two passes with failed polls the alert is active and
\* the per-asset state is still empty
C33_Witness ==
  /\ passes = 2 /\ pc = "sleep" /\ ncmds > 0
  /\ global_alerted /\ startedDegraded /\ lastBroadcast = "alert"
  /\ coin_failures = EmptyMap /\ coin_alerted = {}

\* ---------------------------------------------- properties: conversions
OnlyOneOrTwo(obj) ==
  obj.built => \A i \in DOMAIN obj.value.fixed_list : obj.value.fixed_list[i] \in {1, 2}

\* C34: the fixed_list of every TokenStatus built from an upstream record,
\* and of every TokenStatus restored from its stored string, holds only 1
\* and 2, whatever sale_status values the record carries.
C34_FixedListOnlyOneOrTwo == OnlyOneOrTwo(p_obj) /\ OnlyOneOrTwo(p_back)

\* C35: every status string the registry holds for a watch can be
\* deserialized by from_string, and the status of a poll, serialized and
\* deserialized, is the status again, with its fixed_list, rate and
\* timestamp.
C35_StoredStatusRoundTrips ==
  /\ \A k \in DOMAIN watch : ~from_string_raises(watch[k])
  /\ pc = "update" =>
       /\ ~from_string_raises(to_string(fetched.ts))
       /\ from_string(fetched.ts.coin, to_string(fetched.ts)) = fetched.ts

\* ------------------------------------------- properties: response envelope
\* the values probed for a payload, in probing order
Candidates(payload) ==
  <<payload.data, payload.list, payload.result, payload.rows>>
    \o (IF payload.data.kind = "dict"
        THEN <<payload.data.fields.list, payload.data.fields.rows, payload.data.fields.data>>
        ELSE <<>>)

IsSequence(v) == v.kind = "list"

\* C36: _extract_projects returns the first sequence among payload.data,
\* payload.list, payload.result, payload.rows and then, when payload.data is
\* a mapping, data.list, data.rows, data.data; the empty sequence when none
\* of them is a sequence; a candidate that is no sequence is passed over.
C36_FirstSequenceInOrder ==
  e_ret.done =>
    LET found == SelectSeq(Candidates(e_payload), IsSequence)
    IN e_ret.value = IF found = <<>> THEN <<>> ELSE found[1].items

\* no top-level sequence (a scalar under list is passed over), data is a
\* mapping whose rows and data are sequences: rows is returned
C36_Witness ==
  /\ e_ret.done /\ e_ret.value = <<1>>
  /\ e_payload.list = Scalar /\ e_payload.result = Absent /\ e_payload.rows = Absent
  /\ e_payload.data = DictOf([list |-> Scalar, rows |-> ListOf(<<1>>), data |-> ListOf(<<2>>)])

\* ------------------------------------------------- properties: removal
\* C37: a pair that is not in the in-memory registry (never set, or removed
\* by remove_watch or clear_watches) enters it only by a set_watch for that
\* pair; a monitor pass that took its snapshot before the removal does not
\* bring it back, and no pass starts to poll a pair that is not registered.
C37_RemovalIsDurable ==
  [][\A k \in Keys :
       /\ (k \notin DOMAIN watch /\ k \in DOMAIN watch') =>
            (cmd.op = "set_watch" /\ k = <<cmd.chat, cmd.coin>>)
       /\ (pc = "sleep" /\ pc' = "loop" /\ k \in todo') => k \in DOMAIN watch]_vars

\* ------------------------------------------------ properties: recovery
\* C38: a recovery is broadcast only after a fetch that succeeded later than
\* the alert of the incident: a pass whose last poll raised the alert (no
\* fetch came after it) does not end with a recovery, whatever succeeded
\* earlier in the pass.
C38_RecoveryFollowsLaterSuccess ==
  [][(pc = "loop" /\ pc' = "sleep" /\ lastSent.kind = "alert") =>
       lastSent'.kind # "recovery"]_vars

\* ------------------------------------------- properties: stored scans
\* C39: a scan that was executed returns exactly the payload it stores
\* under its threshold, with the time of the store, whatever entry was
\* there and whichever pages failed; that payload is what a later call
\* without force_refresh gets, with no scan, while the entry is at most Ttl
\* old; a call with force_refresh scans even when such an entry exists.
C39_ScanResultIsCached ==
  [][/\ (s_pc = "pages" /\ s_pc' = "idle") =>
          /\ s_ret'.kind = "scanned"
          /\ cache'[s_thr] = [data |-> s_ret'.data, timestamp |-> cnow]
          /\ DOMAIN cache' = DOMAIN cache \cup {s_thr}
     /\ (CallStep /\ s_call'.force) => (s_pc' = "pages" /\ s_tasks' = PageNumbers)
     /\ (CallStep /\ ~s_call'.force /\ FreshEntry(s_call'.thr)) =>
          /\ s_pc' = "idle"
          /\ s_ret'.data = cache[s_call'.thr].data]_vars

\* -------------------------------------------------- properties: pause
\* C40: the monitor sends nothing to a chat that is paused at that moment:
\* no change notification, no alert broadcast and no recovery broadcast.
C40_NothingSentToPausedChat ==
  [][MonitorStep => lastSent'.to \cap dbPaused = {}]_vars

====
